---- MODULE Spec2Model ----
(***************************************************************************)
(* Verification model of the hexproperty template deployment core:        *)
(*   - DependencyService.check_circular_dependencies                       *)
(*       (scripts/template_system/services.py)                             *)
(*   - DeploymentHistoryService of scripts/template_system (bounded        *)
(*       in-memory history, JSON history file, rollback) and               *)
(*       TemplateManager.deploy_template (scripts/template_system/core.py) *)
(*   - the per-id history store of scripts/services/deployment_history.py  *)
(*       with DeploymentRecord.update_status (scripts/models/deployment.py)*)
(*       and the status handling of src/domain and src/services.           *)
(* Each subsystem has its own specification over its own variables; the    *)
(* variables of the other subsystems stay at their idle values.            *)
(***************************************************************************)
EXTENDS Integers, Sequences, FiniteSets, TLC

VARIABLES
    \* ---- relationship map under construction and the validator's outcome
    relKeys,        \* keys of the relationships dict, in insertion order
    relMap,         \* doc id -> list of relationship.doc_id (targets)
    dfsOut,         \* outcome of check_circular_dependencies, or NotRun
    \* ---- scripts/template_system: DeploymentHistoryService + TemplateManager
    max_entries,    \* DeploymentHistoryService.max_entries
    history,        \* DeploymentHistoryService.history (list of records)
    history_file,   \* content of the JSON history file on disk
    fs,             \* file system: path -> content, or Absent
    clock,          \* number of records created so far (their timestamps)
    pathHasCopy,    \* does pathlib.Path of the interpreter have copy()?
    rb,             \* the rollback call in progress
    lastCall,       \* outcome of the last completed call
    \* ---- scripts/services/deployment_history.py: one JSON file per id
    now,            \* datetime.utcnow()
    store,          \* deployment id -> content of history/<id>.json
    recCall,        \* outcome of the last call on the per-id store
    chain,          \* per id: progress along record, in_progress, completed
    \* ---- asyncio tasks calling the per-id store
    tasks,          \* task -> its call, its position and its local record
    conBase,        \* the record file when the first task was created
    \* ---- a history directory listed by list_deployments / get_deployment_stats
    dir,            \* the record files, in the order glob() yields them
    listOut,        \* outcome of the last listing or statistics call
    \* ---- src/domain/models/deployment_model.py and src/services
    dom,            \* the DeploymentRecord object a client holds
    cstore,         \* deployment id -> content of <history_dir>/<id>.json
    domCall,        \* outcome of the last call on dom or cstore
    \* ---- src/domain/security/rate_limiter.py
    config,         \* the RateLimitConfig the limiter was built with
    windows,        \* key -> RateLimitEntry (self._windows)
    rtime,          \* time.time()
    rateCall        \* outcome of the last call on the limiter

dfsVars == <<relKeys, relMap, dfsOut>>

histVars == <<max_entries, history, history_file, fs, clock, pathHasCopy, rb, lastCall>>

recVars == <<now, store, recCall, chain>>

conVars == <<tasks, conBase>>

listVars == <<dir, listOut>>

domVars == <<dom, cstore, domCall>>

\* the subsystems that the template system, the validator and a sequential
\* client of the per-id store leave alone
rateVars == <<config, windows, rtime, rateCall>>

restVars == <<conVars, listVars, domVars, rateVars>>

vars == <<relKeys, relMap, dfsOut,
          max_entries, history, history_file, fs, clock, pathHasCopy, rb, lastCall,
          now, store, recCall, chain,
          tasks, conBase, dir, listOut, dom, cstore, domCall,
          config, windows, rtime, rateCall>>

----------------------------------------------------------------------------
(* Bounds *)

MaxDocs == 3
MaxEdges == 4
MaxCap == 2
MaxClock == 3
MaxDisk == 2
MaxTime == 2
MaxErrs == 1
MaxFiles == 2
MaxRequests == 2
MaxBurst == 3
MaxWindow == 2
MaxNow == 4

DocIds == 1..MaxDocs

NotRun == [raised |-> "not_run"]

----------------------------------------------------------------------------
(* Generic helpers *)

Range(s) == {s[i] : i \in 1..Len(s)}

RECURSIVE SumLens(_, _)
SumLens(f, S) ==
    IF S = {} THEN 0
    ELSE LET d == CHOOSE x \in S : TRUE
         IN Len(f[d]) + SumLens(f, S \ {d})

----------------------------------------------------------------------------
(* scripts/template_system/services.py : names bound in the module         *)

\* Names the module scripts/template_system/services.py binds: its imports
\* (lines 8-24) and its own classes.  The exception classes
\* TemplateDeploymentError, ConfigurationError and CircularDependencyError
\* are defined in core.py (lines 27-37) and never imported here.
ServicesGlobals ==
    {"git", "yaml", "json", "Path", "Dict", "List", "Optional", "Any", "Set",
     "datetime", "logger", "asdict",
     "DocumentMetadataModel", "DocumentRelationshipModel", "ConfigModel",
     "DeploymentRecord", "DocumentStatus", "DocumentClassification",
     "BaseService", "ConfigService", "GitService", "TemplateService",
     "DependencyService", "DeploymentHistoryService"}

\* Methods of BaseService (lines 26-39), inherited by every service.
BaseServiceMethods == {"__init__", "log_error", "log_info"}

\* Evaluating a global name inside services.py: the name itself when it is
\* bound, else the NameError Python raises.
ResolveName(name) == IF name \in ServicesGlobals THEN name ELSE "NameError"

\* self.<method>(...) on a service: fine when BaseService defines the
\* method, else AttributeError.
CallMethod(name) == IF name \in BaseServiceMethods THEN "none" ELSE "AttributeError"

----------------------------------------------------------------------------
(* DependencyService.check_circular_dependencies                           *)

\* relationships.get(doc_id, [])
RelsOf(keys, map, doc_id) == IF doc_id \in Range(keys) THEN map[doc_id] ELSE <<>>

\* State threaded through the nested dfs(): the two sets of the code, the
\* exception in flight ("none" when there is none) and, for each id, how
\* often dfs() was entered for it.
DfsState0 ==
    [visited |-> {}, recursion_stack |-> {}, raised |-> "none",
     starts |-> [d \in DocIds |-> 0]]

RECURSIVE dfs(_, _, _, _)
RECURSIVE dfsLoop(_, _, _, _, _)

\* Body of the for loop of dfs(), from relationship number i on.
dfsLoop(keys, map, doc_id, i, st) ==
    LET rels == RelsOf(keys, map, doc_id) IN
    IF st.raised # "none" THEN st
    ELSE IF i > Len(rels)
         THEN [st EXCEPT !.recursion_stack = @ \ {doc_id}]
    ELSE LET dependent_doc == rels[i] IN
         IF dependent_doc \in st.recursion_stack
         THEN [st EXCEPT !.raised = ResolveName("CircularDependencyError")]
         ELSE IF dependent_doc \notin st.visited
              THEN dfsLoop(keys, map, doc_id, i + 1,
                           dfs(keys, map, dependent_doc, st))
              ELSE dfsLoop(keys, map, doc_id, i + 1, st)

\* dfs() without visited.add(doc_id)
dfs_unmarked(keys, map, doc_id, st) ==
    dfsLoop(keys, map, doc_id, 1,
            [st EXCEPT !.recursion_stack = @ \cup {doc_id},
                       !.starts[doc_id] = @ + 1])

\* the nested dfs(doc_id) (226-241)
dfs(keys, map, doc_id, st) ==
    dfsLoop(keys, map, doc_id, 1,
            [st EXCEPT !.visited = @ \cup {doc_id},
                       !.recursion_stack = @ \cup {doc_id},
                       !.starts[doc_id] = @ + 1])

RECURSIVE dfsRoots(_, _, _, _)
\* for doc_id in relationships: if doc_id not in visited: dfs(doc_id)
dfsRoots(keys, map, k, st) ==
    IF st.raised # "none" \/ k > Len(keys) THEN st
    ELSE IF keys[k] \notin st.visited
         THEN dfsRoots(keys, map, k + 1, dfs(keys, map, keys[k], st))
         ELSE dfsRoots(keys, map, k + 1, st)

\* The except clauses of lines 250-254 applied to the exception leaving the
\* try body.  Matching "except CircularDependencyError" evaluates that name.
ExceptClauses(exc) ==
    IF exc = "none" THEN "none"
    ELSE IF ResolveName("CircularDependencyError") = "NameError" THEN "NameError"
    ELSE IF exc = "CircularDependencyError" THEN exc
    ELSE ResolveName("TemplateDeploymentError")

\* the relationship check finds nothing
check_circular_dependencies_skipped(keys, map) == DfsState0

\* check_circular_dependencies (210-254)
check_circular_dependencies(keys, map) ==
    LET st == dfsRoots(keys, map, 1, DfsState0)
    IN [st EXCEPT !.raised = ExceptClauses(st.raised)]

\* no relationship map under construction
DfsIdle == relKeys = <<>> /\ relMap = [d \in DocIds |-> <<>>] /\ dfsOut = NotRun

----------------------------------------------------------------------------
(* Paths, file contents and optional values                                 *)

NoneVal == [none |-> TRUE]
Some(v) == [none |-> FALSE, val |-> v]

Absent == "absent"

\* A path is its name without suffixes plus the list of its suffixes:
\* /docs/x.md is [stem |-> "/docs/x", exts |-> <<"md">>].
T1 == [stem |-> "/docs/x", exts |-> <<"md">>]
T2 == [stem |-> "/docs/x", exts |-> <<>>]
Targets == {T1, T2}

\* template files <templates_dir>/<template_type>.md
TplA == [stem |-> "/templates/a", exts |-> <<"md">>]
TplB == [stem |-> "/templates/b", exts |-> <<"md">>]

\* pathlib.PurePath.with_suffix: the last suffix is replaced, a name
\* without suffix gets the new one appended.
with_suffix(p, suffix) ==
    IF Len(p.exts) = 0 THEN [p EXCEPT !.exts = <<suffix>>]
    ELSE [p EXCEPT !.exts = Append(SubSeq(@, 1, Len(@) - 1), suffix)]

\* The path named <p>.<suffix>: the whole name of p followed by the suffix.
PlusSuffix(p, suffix) == [p EXCEPT !.exts = Append(@, suffix)]

AllPaths ==
    Targets \cup {with_suffix(t, "backup") : t \in Targets}
            \cup {PlusSuffix(t, "backup") : t \in Targets}
            \cup {TplA, TplB}

\* TemplateService.process_template: the processed text differs from the
\* raw text ("tA" raw template a, "s" raw text supplied by the caller).
process_template(content) == IF content = "tA" THEN "pA" ELSE "pS"

----------------------------------------------------------------------------
(* scripts/template_system: DeploymentRecord and the history file           *)

Statuses == {"pending", "success", "failed"}

\* Records a caller may hand to record_deployment.
RecordInputs ==
    {r \in [target_path : Targets, status : Statuses,
            template_path : {NoneVal, Some(TplA), Some(TplB)}] :
        r.status # "success" => r.template_path = NoneVal}

MkRecord(r, ts) ==
    [target_path |-> r.target_path, status |-> r.status,
     template_path |-> r.template_path, timestamp |-> ts]

\* asdict(rec) written by json.dump(..., default=str): every key present.
ToJson(rec) == [complete |-> TRUE, rec |-> rec]

\* An object of the file that lacks one of the keys _load_history reads.
IncompleteEntry == [complete |-> FALSE]

FileAbsent == [state |-> "absent"]
FileCorrupt == [state |-> "corrupt"]
FileOf(h) == [state |-> "ok", data |-> [i \in 1..Len(h) |-> ToJson(h[i])]]

\* h[:n] instead of h[-n:]
PyLastN_first(h, n) == IF n >= Len(h) THEN h ELSE SubSeq(h, 1, n)

\* Python's h[-n:]
PyLastN(h, n) ==
    IF n = 0 THEN h
    ELSE IF n < 0 THEN SubSeq(h, 1 - n, Len(h))
    ELSE IF n >= Len(h) THEN h
    ELSE SubSeq(h, Len(h) - n + 1, Len(h))

RECURSIVE LoadEntries(_, _)
\* the loop of _load_history: entries raising KeyError are skipped
LoadEntries(data, i) ==
    IF i > Len(data) THEN <<>>
    ELSE IF data[i].complete THEN <<data[i].rec>> \o LoadEntries(data, i + 1)
    ELSE LoadEntries(data, i + 1)

_load_history(file, n) ==
    IF file.state = "absent" THEN <<>>
    ELSE IF file.state = "corrupt" THEN <<>>
    ELSE PyLastN(LoadEntries(file.data, 1), n)

\* record_deployment: the new in-memory list
RecordedHistory(h, record, n) == PyLastN(Append(h, record), n)

\* record_deployment: the file after the try block.  fault "dump": the
\* write fails after open('w') truncated the file.
WrittenFile(file, h, fault) ==
    IF fault = "none" THEN FileOf(h) ELSE FileCorrupt

WriteFaults == {"none", "dump"}

----------------------------------------------------------------------------
(* DeploymentHistoryService.rollback                                        *)

RECURSIVE MatchingFrom(_, _, _)
\* [rec for rec in reversed(self.history) if ...], as indices into history
MatchingFrom(h, target_path, i) ==
    IF i = 0 THEN <<>>
    ELSE IF h[i].target_path = target_path /\ h[i].status = "success"
         THEN <<i>> \o MatchingFrom(h, target_path, i - 1)
         ELSE MatchingFrom(h, target_path, i - 1)

\* the same list without reversed(): oldest match first
matching_deployments_oldest(h, target_path) ==
    LET m == MatchingFrom(h, target_path, Len(h))
    IN [i \in 1..Len(m) |-> m[Len(m) + 1 - i]]

matching_deployments(h, target_path) == MatchingFrom(h, target_path, Len(h))

\* previous_deployment = matching_deployments[0]
previous_deployment(h, target_path) == matching_deployments(h, target_path)[1]

RbIdle == [pc |-> "idle"]
NoCall == [op |-> "none"]

\* What the body of the try block does after the backup step: the
\* exception it ends with ("none" when the copy is made).
RestoreException(files, template_path) ==
    IF template_path.none THEN "TypeError"
    ELSE IF files[template_path.val] = Absent
         THEN ResolveName("TemplateDeploymentError")
    ELSE IF ~pathHasCopy THEN "AttributeError"
    ELSE "none"

\* rollback, lines 323-333: select the record, or give up.
RollbackCall(target_path) ==
    /\ rb.pc = "idle"
    /\ LET m == matching_deployments(history, target_path) IN
       IF m = <<>>
       THEN /\ lastCall' = [op |-> "rollback", target |-> target_path,
                            exc |-> CallMethod("log_warning"), ret |-> NoneVal,
                            sel |-> 0, pre |-> fs[target_path], caught |-> "none"]
            /\ rb' = rb
       ELSE /\ rb' = [pc |-> "backup", target |-> target_path,
                      sel |-> previous_deployment(history, target_path),
                      pre |-> fs[target_path]]
            /\ lastCall' = NoCall
    /\ UNCHANGED <<max_entries, history, history_file, fs, clock, pathHasCopy>>
    /\ UNCHANGED dfsVars
    /\ UNCHANGED recVars
    /\ UNCHANGED restVars

\* the file is removed and nothing is put at the new path
rename_dropping(files, path, new_path) == [files EXCEPT ![path] = Absent]

\* Path.rename: the file leaves its path and replaces what is at new_path
rename(files, path, new_path) ==
    [files EXCEPT ![new_path] = files[path], ![path] = Absent]

\* rollback, lines 337-339: move the current file to the backup path.
RollbackBackup ==
    /\ rb.pc = "backup"
    /\ LET backup_path == with_suffix(rb.target, "backup") IN
       fs' = IF fs[rb.target] # Absent
             THEN rename(fs, rb.target, backup_path)
             ELSE fs
    /\ rb' = [rb EXCEPT !.pc = "restore"]
    /\ UNCHANGED <<max_entries, history, history_file, clock, pathHasCopy, lastCall>>
    /\ UNCHANGED dfsVars
    /\ UNCHANGED recVars
    /\ UNCHANGED restVars

\* rollback, lines 341-354: locate the template, copy it, return.
RollbackRestore ==
    /\ rb.pc = "restore"
    /\ LET template_path == history[rb.sel].template_path
           e == RestoreException(fs, template_path)
       IN /\ fs' = IF e = "none"
                   THEN [fs EXCEPT ![rb.target] = fs[template_path.val]]
                   ELSE fs
          /\ lastCall' = [op |-> "rollback", target |-> rb.target, exc |-> "none",
                          ret |-> IF e = "none"
                                  THEN Some(with_suffix(rb.target, "backup"))
                                  ELSE NoneVal,
                          sel |-> rb.sel, pre |-> rb.pre, caught |-> e]
    /\ rb' = RbIdle
    /\ UNCHANGED <<max_entries, history, history_file, clock, pathHasCopy>>
    /\ UNCHANGED dfsVars
    /\ UNCHANGED recVars
    /\ UNCHANGED restVars

----------------------------------------------------------------------------
(* DeploymentHistoryService.record_deployment called by a client            *)

RecordDeployment(r, fault) ==
    /\ rb.pc = "idle"
    /\ clock < MaxClock
    /\ clock' = clock + 1
    /\ history' = RecordedHistory(history, MkRecord(r, clock + 1), max_entries)
    /\ history_file' = WrittenFile(history_file, history', fault)
    /\ lastCall' = [op |-> "record_deployment", exc |-> "none", fault |-> fault]
    /\ UNCHANGED <<max_entries, fs, pathHasCopy, rb>>
    /\ UNCHANGED dfsVars
    /\ UNCHANGED recVars
    /\ UNCHANGED restVars

----------------------------------------------------------------------------
(* TemplateManager.deploy_template (scripts/template_system/core.py)        *)

\* Inputs of deploy_template: metadata.doc_id, the relationship targets,
\* where the text comes from ("a", "b": template file of that type,
\* "given": template_content passed in) and the step that fails.
DeployDocIds == {1}
DeployRels == {<<>>, <<1>>, <<2>>}
DeploySources == {"a", "b", "given"}
DeployFaults == {"none", "process", "write", "git"}

\* the dict built at core.py 112-114
DeployMap(doc_id, rels) == [d \in DocIds |-> IF d = doc_id THEN rels ELSE <<>>]

\* core.py 143: str(template_path) if template_content is None else None
TemplatePathEntry(template_content, template_path) ==
    IF template_content = "None" THEN Some(template_path) ELSE NoneVal

\* the record is stored as it was created
record_status_pending(fault) == "pending"

\* core.py 156 and 162: record.status after the inner try block, when the
\* step named by fault raised
record_status(fault) == IF fault \in {"write", "git"} THEN "failed" ELSE "success"

\* deploy_template, lines 150-170: write the target, commit, and record the
\* deployment in the finally clause.  fault is the step that fails.
DeployAndRecord(call, record0, processed_content, fault, hfault) ==
    LET status == record_status(fault)
        record == [record0 EXCEPT !.status = status]
    IN /\ fs' = IF fault = "write" THEN fs
                ELSE [fs EXCEPT ![call.target] = processed_content]
       /\ clock' = clock + 1
       /\ history' = RecordedHistory(history, record, max_entries)
       /\ history_file' = WrittenFile(history_file, history', hfault)
       /\ lastCall' = [call EXCEPT
                         !.exc = IF status = "success" THEN "none"
                                 ELSE "TemplateDeploymentError",
                         !.recorded = TRUE, !.status = status,
                         !.wrote = fault # "write", !.hfault = hfault]

DeployTemplate(target_path, doc_id, rels, src) ==
    /\ rb.pc = "idle"
    /\ clock < MaxClock
    /\ LET checked == rels # <<>>
           chk == IF checked
                  THEN check_circular_dependencies(<<doc_id>>, DeployMap(doc_id, rels))
                  ELSE DfsState0
           template_path == IF src = "b" THEN TplB ELSE TplA
           loaded == IF src = "given" THEN "s" ELSE fs[template_path]
           record0 == [target_path |-> target_path, status |-> "pending",
                       template_path |-> TemplatePathEntry(loaded, template_path),
                       timestamp |-> clock + 1]
           call == [op |-> "deploy_template", target |-> target_path,
                    checked |-> checked, doc_id |-> doc_id, rels |-> rels,
                    pre |-> fs[target_path], src |-> src,
                    hlast |-> IF history = <<>> THEN 0
                              ELSE history[Len(history)].timestamp,
                    exc |-> "none", recorded |-> FALSE, early |-> "none",
                    status |-> "pending", wrote |-> FALSE, hfault |-> "none"]
           Fail(early) ==
               /\ lastCall' = [call EXCEPT !.exc = "TemplateDeploymentError",
                                           !.early = early]
               /\ UNCHANGED <<history, history_file, fs, clock>>
       IN IF chk.raised # "none" THEN Fail("cycle")
          ELSE IF loaded = Absent THEN Fail("template")
          ELSE \E fault \in DeployFaults :
                  IF fault = "process" THEN Fail("process")
                  ELSE \E hfault \in WriteFaults :
                          DeployAndRecord(call, record0, process_template(loaded),
                                          fault, hfault)
    /\ UNCHANGED <<max_entries, pathHasCopy, rb>>
    /\ UNCHANGED dfsVars
    /\ UNCHANGED recVars
    /\ UNCHANGED restVars

----------------------------------------------------------------------------
(* scripts/models/deployment.py : DeploymentRecord of the per-id store      *)

\* the deployment ids a client uses
DepIds == {"D1"}

\* DeploymentStatus of scripts/models/deployment.py
BStatuses ==
    {"pending", "in_progress", "completed", "failed", "rolled_back",
     "partially_deployed"}

\* A record file that does not exist.
NoRec == [exists |-> FALSE]

\* DeploymentRecord(...) as a client constructs it: no errors, metrics with
\* the start time only.
NewDeployment(status, start_time) ==
    [status |-> status, errors |-> <<>>, start_time |-> start_time,
     end_time |-> NoneVal, duration_seconds |-> NoneVal]

\* deployment.json(): enums as their values, every field present
json(deployment) ==
    [exists |-> TRUE, status |-> deployment.status, errors |-> deployment.errors,
     start_time |-> deployment.start_time, end_time |-> deployment.end_time,
     duration_seconds |-> deployment.duration_seconds]

\* DeploymentRecord.parse_raw(text)
parse_raw(text) ==
    [status |-> text.status, errors |-> text.errors,
     start_time |-> text.start_time, end_time |-> text.end_time,
     duration_seconds |-> text.duration_seconds]

\* error arguments of update_status: none, a well-formed error dict, a dict
\* DeploymentError(**error) rejects
ErrorInputs == {"None", "E1", "bad"}

\* duration computed as start_time - end_time
update_status_negated(deployment, status, error, t) ==
    LET d1 == [deployment EXCEPT !.status = status]
        d2 == IF error # "None" THEN [d1 EXCEPT !.errors = Append(@, error)] ELSE d1
    IN IF status \in {"completed", "failed"}
       THEN [d2 EXCEPT !.end_time = Some(t),
                       !.duration_seconds = Some(d2.start_time - t)]
       ELSE d2

\* DeploymentRecord.update_status (scripts/models/deployment.py 282-310),
\* called at time t = datetime.utcnow()
update_status(deployment, status, error, t) ==
    LET d1 == [deployment EXCEPT !.status = status]
        d2 == IF error # "None" THEN [d1 EXCEPT !.errors = Append(@, error)] ELSE d1
    IN IF status \in {"completed", "failed"}
       THEN [d2 EXCEPT !.end_time = Some(t),
                       !.duration_seconds = Some(t - d2.start_time)]
       ELSE d2

----------------------------------------------------------------------------
(* scripts/services/deployment_history.py : DeploymentHistoryService        *)

\* Progress of an id along record(pending), update(in_progress),
\* update(completed), each without error argument and without I/O fault.
ChainAfterRecord(status, fault) ==
    IF status = "pending" /\ fault = "none" THEN 1 ELSE 0

ChainAfterUpdate(c, status, error, fault) ==
    IF error = "None" /\ fault = "none"
    THEN IF c = 1 /\ status = "in_progress" THEN 2
         ELSE IF c = 2 /\ status = "completed" THEN 3
         ELSE 0
    ELSE 0

\* a missing record file is read as a fresh pending record
get_deployment_default(files, id) ==
    IF ~files[id].exists
    THEN [exc |-> "none", deployment |-> NewDeployment("pending", 0)]
    ELSE [exc |-> "none", deployment |-> parse_raw(files[id])]

\* get_deployment (208-231): the exception raised, or the record read from
\* the file of that id
get_deployment(files, id) ==
    IF ~files[id].exists
    THEN [exc |-> "ValueError"]
    ELSE [exc |-> "none", deployment |-> parse_raw(files[id])]

\* record_deployment (178-206): open() and write() are not guarded.  The
\* record is new: metrics.start_time, which the client supplies, is a reading
\* of the clock taken before the call.
RecordNew(id, status, start_time, fault) ==
    /\ start_time <= now
    /\ store' = IF fault = "none"
                THEN [store EXCEPT ![id] = json(NewDeployment(status, start_time))]
                ELSE store
    /\ recCall' = [op |-> "record_deployment", id |-> id,
                   exc |-> IF fault = "none" THEN "none" ELSE "OSError",
                   from |-> "none", to |-> status, before |-> store[id],
                   fault |-> fault]
    /\ chain' = [chain EXCEPT ![id] = ChainAfterRecord(status, fault)]
    /\ UNCHANGED now

\* get_deployment (208-231)
GetDeployment(id) ==
    /\ recCall' = [op |-> "get_deployment", id |-> id,
                   exc |-> get_deployment(store, id).exc,
                   from |-> "none", to |-> "none", before |-> store[id],
                   fault |-> "none"]
    /\ UNCHANGED <<now, store, chain>>

\* update_deployment (233-260): get_deployment, update_status,
\* record_deployment.
UpdateDeployment(id, status, error, fault) ==
    /\ (store[id].exists /\ error = "E1") => Len(store[id].errors) < MaxErrs
    /\ LET found == store[id].exists
           got == get_deployment(store, id)
           exc == IF got.exc # "none" THEN got.exc
                  ELSE IF error = "bad" THEN "ValidationError"
                  ELSE IF fault # "none" THEN "OSError"
                  ELSE "none"
       IN /\ store' = IF exc = "none"
                      THEN [store EXCEPT ![id] =
                              json(update_status(got.deployment, status, error, now))]
                      ELSE store
          /\ recCall' = [op |-> "update_deployment", id |-> id, exc |-> exc,
                         from |-> IF found THEN store[id].status ELSE "none",
                         to |-> status, before |-> store[id], fault |-> fault]
    /\ chain' = [chain EXCEPT ![id] = ChainAfterUpdate(@, status, error, fault)]
    /\ UNCHANGED now

\* time passes between calls
Tick ==
    /\ now < MaxTime
    /\ now' = now + 1
    /\ UNCHANGED <<store, recCall, chain>>

RecIdle ==
    /\ now = 0 /\ store = [id \in DepIds |-> NoRec]
    /\ recCall = NoCall /\ chain = [id \in DepIds |-> 0]

----------------------------------------------------------------------------
(* Idle values of the remaining subsystems                                  *)

\* asyncio tasks of one event loop
Tasks == {"t1", "t2"}

\* a task that was not created
IdleTask == [pc |-> "idle"]

ConIdle == tasks = [t \in Tasks |-> IdleTask] /\ conBase = NoRec

ListIdle == dir = <<>> /\ listOut = NoCall

\* no DeploymentRecord object constructed
NoDom == [built |-> FALSE]

\* ids of the record files of src/services/deployment_history_service.py
CIds == {"DEP-001"}

DomIdle == dom = NoDom /\ cstore = [id \in CIds |-> NoRec] /\ domCall = NoCall

\* a limiter nobody has called yet, built from the test fixture's shape
RateIdle ==
    /\ config = [max_requests |-> 1, time_window |-> 1,
                 burst_limit |-> NoneVal, group_key |-> "None"]
    /\ windows = [k \in {"test_user"} |-> [exists |-> FALSE]]
    /\ rtime = 0
    /\ rateCall = NoCall

RestIdle == ConIdle /\ ListIdle /\ DomIdle /\ RateIdle

----------------------------------------------------------------------------
(* src/domain/models/deployment_model.py : the domain DeploymentRecord      *)

\* DeploymentStatus of the domain model (30-36)
CStatuses == {"pending", "in_progress", "completed", "failed", "rolled_back"}

\* SecurityLevel (23-28), by value
SecurityLevels == {"read_only", "execute", "modify", "admin"}

\* position of a level's value in the order of Python's str comparison
LexRank(level) ==
    CASE level = "admin" -> 1
      [] level = "execute" -> 2
      [] level = "modify" -> 3
      [] level = "read_only" -> 4

\* The table of StatusTransitionValidator.validate
\* (src/domain/models/deployment_model.py 74-80); a status that is not a key
\* has no successor.
valid_transitions(status) ==
    CASE status = "pending" -> {"in_progress", "failed"}
      [] status = "in_progress" -> {"completed", "failed"}
      [] status = "completed" -> {"rolled_back"}
      [] status = "failed" -> {"pending"}
      [] status = "rolled_back" -> {"pending"}
      [] OTHER -> {}

\* StatusTransitionValidator.validate (73-81): the record's own status is
\* looked up among the successors of that same status.
validate(deployment) == deployment.status \in valid_transitions(deployment.status)

\* _validate_fields (163-176): isinstance checks only.  Ids are str values;
\* a deployment_type is a DeploymentType member ("template", "config") or a
\* plain str ("test").
ValidateFields(deployment_id, deployment_type) ==
    deployment_type \in {"template", "config"}

\* version strings a client passes to DeploymentMetadata
Versions == {"1.0.0", "2.10.3", "1.0", "invalid"}

\* DeploymentMetadata.validate_version (93-97): ^\d+\.\d+\.\d+$
VersionOk(version) == version \in {"1.0.0", "2.10.3"}

\* deployment ids a client passes to the constructor
DomIds == {"", "DEP-001"}

\* user ids passed as modified_by
Users == {"", "user123"}

\* check_access (257-305): the comparison is between the str values of the
\* two levels.
check_access(deployment, user_id, required_level) ==
    IF user_id = "" THEN FALSE
    ELSE IF LexRank(required_level) > LexRank(deployment.security_level) THEN FALSE
    ELSE TRUE

\* DeploymentRecord(deployment_id=..., deployment_type=...,
\* metadata=DeploymentMetadata(version=..., security_level=...))
Construct(deployment_id, deployment_type, version, security_level) ==
    LET exc == IF ~VersionOk(version) THEN "ValueError"
               ELSE IF ~ValidateFields(deployment_id, deployment_type)
                    THEN "ValidationError"
               ELSE "none"
    IN /\ dom' = IF exc = "none"
                 THEN [built |-> TRUE, deployment_id |-> deployment_id,
                       status |-> "pending",
                       security_level |-> security_level,
                       modified_by |-> NoneVal, errors |-> <<>>]
                 ELSE dom
       /\ domCall' = [op |-> "construct", exc |-> exc,
                      deployment_id |-> deployment_id, version |-> version]
       /\ UNCHANGED cstore

\* deployment.status = s, as test_status_validator does
AssignStatus(s) ==
    /\ dom.built
    /\ dom' = [dom EXCEPT !.status = s]
    /\ domCall' = [op |-> "assign_status", exc |-> "none"]
    /\ UNCHANGED cstore

\* StatusTransitionValidator().validate(deployment)
DomValidate ==
    /\ dom.built
    /\ domCall' = [op |-> "validate", exc |-> "none", ret |-> validate(dom)]
    /\ UNCHANGED <<dom, cstore>>

\* DeploymentRecord.update_status (196-221)
DomUpdateStatus(new_status, modified_by, security_level) ==
    /\ dom.built
    /\ LET exc == IF ~check_access(dom, modified_by, security_level)
                  THEN "SecurityError"
                  ELSE IF ~validate(dom) THEN "ValidationError"
                  ELSE "none"
       IN /\ dom' = IF exc = "none"
                    THEN [dom EXCEPT !.status = new_status,
                                     !.modified_by = Some(modified_by)]
                    ELSE dom
          /\ domCall' = [op |-> "update_status", exc |-> exc,
                         from |-> dom.status, level |-> dom.security_level,
                         new_status |-> new_status, modified_by |-> modified_by,
                         security_level |-> security_level]
    /\ UNCHANGED cstore

\* DeploymentRecord.add_error (307-309)
DomAddError ==
    /\ dom.built
    /\ Len(dom.errors) < MaxErrs
    /\ dom' = [dom EXCEPT !.errors = Append(@, "test_error")]
    /\ domCall' = [op |-> "add_error", exc |-> "none"]
    /\ UNCHANGED cstore

----------------------------------------------------------------------------
(* src/services/deployment_history_service.py : DeploymentHistoryService    *)

\* The attributes of a domain DeploymentRecord object: its dataclass fields
\* (127-150), the class attribute _rate_limiter and its methods.
DomainRecordAttrs ==
    {"deployment_id", "deployment_type", "deployment_strategy", "created_at",
     "stakeholders", "objectives", "initial_state", "implementation_steps",
     "validation_results", "integration_status", "rollback_plan",
     "performance_metrics", "optimization_attempts", "system_interactions",
     "future_improvements", "edge_case_handling", "status", "metadata",
     "_rate_limiter", "update_status", "validate_deployment", "to_dict",
     "check_access", "add_error"}

\* the attributes record_deployment reads, in the order of lines 46-57
RecordReads ==
    <<"deployment_id", "deployment_type", "created_at", "stakeholders",
      "objectives", "status", "deployment_strategy", "implementation_steps",
      "validation_results", "errors">>

\* deployment.<name>
GetAttr(name) == IF name \in DomainRecordAttrs THEN "none" ELSE "AttributeError"

\* statuses a caller passes to update_deployment_status: any str
StatusStrings == CStatuses \cup {"bogus"}

\* a record file as the tests write it (json.dump of a dict)
CFile(status) ==
    [exists |-> TRUE, status |-> status, modified_by |-> NoneVal, errors |-> <<>>]

\* record_deployment (41-65): build the dict, write the file; any exception
\* is logged and raised again.
CRecord(fault) ==
    /\ dom.built
    /\ LET missing == {i \in 1..Len(RecordReads) : GetAttr(RecordReads[i]) # "none"}
           exc == IF missing # {} THEN "AttributeError"
                  ELSE IF fault # "none" THEN "OSError"
                  ELSE "none"
       IN /\ cstore' = IF exc = "none"
                       THEN [cstore EXCEPT ![dom.deployment_id] =
                               [exists |-> TRUE, status |-> dom.status,
                                modified_by |-> NoneVal, errors |-> dom.errors]]
                       ELSE cstore
          /\ domCall' = [op |-> "record_deployment", exc |-> exc,
                         id |-> dom.deployment_id, fault |-> fault]
    /\ UNCHANGED dom

\* update_deployment_status (67-88): any exception is logged and turned
\* into the return value False.
CUpdateStatus(id, new_status, modified_by, fault) ==
    /\ LET caught == IF ~cstore[id].exists THEN "FileNotFoundError"
                     ELSE IF fault # "none" THEN "OSError"
                     ELSE "none"
       IN /\ cstore' = IF caught = "none"
                       THEN [cstore EXCEPT ![id] =
                               [@ EXCEPT !.status = new_status,
                                         !.modified_by = Some(modified_by)]]
                       ELSE cstore
          /\ domCall' = [op |-> "update_deployment_status", exc |-> "none",
                         id |-> id, ret |-> (caught = "none"), caught |-> caught,
                         found |-> cstore[id].exists, new_status |-> new_status]
    /\ UNCHANGED dom

----------------------------------------------------------------------------
(* The history store and the template manager as one system                 *)

InitFs == [p \in AllPaths |-> IF p = TplA THEN "tA" ELSE Absent]

HistIdle ==
    /\ max_entries = 1 /\ history = <<>> /\ history_file = FileAbsent
    /\ fs = InitFs /\ clock = 0 /\ pathHasCopy = FALSE
    /\ rb = RbIdle /\ lastCall = NoCall

\* number of complete entries among the first i
NumComplete(kinds, i) == Cardinality({j \in 1..i : kinds[j]})

\* History files a run may find: none, an unreadable one, or a list whose
\* complete entries are earlier successful deployments of T1 from template
\* a, numbered in file order.
InitFiles ==
    {FileAbsent, FileCorrupt} \cup
    UNION {{[state |-> "ok",
             data |-> [i \in 1..n |->
                 IF kinds[i]
                 THEN ToJson([target_path |-> T1, status |-> "success",
                              template_path |-> Some(TplA),
                              timestamp |-> NumComplete(kinds, i)])
                 ELSE IncompleteEntry]] : kinds \in [1..n -> BOOLEAN]}
           : n \in 0..MaxDisk}

\* DeploymentHistoryService.__init__
InitHist ==
    /\ max_entries \in 1..MaxCap
    /\ pathHasCopy \in BOOLEAN
    /\ history_file \in InitFiles
    /\ history = _load_history(history_file, max_entries)
    /\ clock = IF history_file.state = "ok"
               THEN Len(LoadEntries(history_file.data, 1)) ELSE 0
    /\ fs = InitFs
    /\ rb = RbIdle
    /\ lastCall = NoCall
    /\ DfsIdle
    /\ RecIdle
    /\ RestIdle

NextHist ==
    \/ \E r \in RecordInputs, f \in WriteFaults : RecordDeployment(r, f)
    \/ \E t \in Targets : RollbackCall(t)
    \/ RollbackBackup
    \/ RollbackRestore
    \/ \E t \in Targets, d \in DeployDocIds, rels \in DeployRels,
          src \in DeploySources : DeployTemplate(t, d, rels, src)

SpecHist == InitHist /\ [][NextHist]_vars

-----
(* Callers of the validator build a dict and pass it (core.py 190-201).    *)

\* relationships[d] = [] for a new key d
AddDoc(d) ==
    /\ dfsOut = NotRun
    /\ d \notin Range(relKeys)
    /\ relKeys' = Append(relKeys, d)
    /\ UNCHANGED <<relMap, dfsOut>>
    /\ UNCHANGED histVars
    /\ UNCHANGED recVars
    /\ UNCHANGED restVars

\* relationships[k].append(DocumentRelationshipModel(doc_id=t, ...)); the
\* model of scripts/template_system/models.py holds the target id only and
\* has no validator comparing it with the owning document.
AddRel(k, t) ==
    /\ dfsOut = NotRun
    /\ k \in Range(relKeys)
    /\ SumLens(relMap, DocIds) < MaxEdges
    /\ relMap' = [relMap EXCEPT ![k] = Append(@, t)]
    /\ UNCHANGED <<relKeys, dfsOut>>
    /\ UNCHANGED histVars
    /\ UNCHANGED recVars
    /\ UNCHANGED restVars

\* TemplateManager.validate_dependencies(relationships)
ValidateDependencies ==
    /\ dfsOut = NotRun
    /\ dfsOut' = check_circular_dependencies(relKeys, relMap)
    /\ UNCHANGED <<relKeys, relMap>>
    /\ UNCHANGED histVars
    /\ UNCHANGED recVars
    /\ UNCHANGED restVars

InitDfs == DfsIdle /\ HistIdle /\ RecIdle /\ RestIdle

NextDfs ==
    \/ \E d \in DocIds : AddDoc(d)
    \/ \E k \in DocIds, t \in DocIds : AddRel(k, t)
    \/ ValidateDependencies

SpecDfs == InitDfs /\ [][NextDfs]_vars

----------------------------------------------------------------------------
(* The per-id store driven by a client                                      *)

InitRec == RecIdle /\ DfsIdle /\ HistIdle /\ RestIdle

NextRec ==
    \/ (\E id \in DepIds, st \in BStatuses, t \in 0..MaxTime, f \in {"none", "open"} :
            RecordNew(id, st, t, f)) /\ UNCHANGED dfsVars /\ UNCHANGED histVars
          /\ UNCHANGED restVars
    \/ (\E id \in DepIds : GetDeployment(id)) /\ UNCHANGED dfsVars /\ UNCHANGED histVars
          /\ UNCHANGED restVars
    \/ (\E id \in DepIds, st \in BStatuses, e \in ErrorInputs, f \in {"none", "open"} :
            UpdateDeployment(id, st, e, f)) /\ UNCHANGED dfsVars /\ UNCHANGED histVars
          /\ UNCHANGED restVars
    \/ Tick /\ UNCHANGED dfsVars /\ UNCHANGED histVars
          /\ UNCHANGED restVars

SpecRec == InitRec /\ [][NextRec]_vars

----------------------------------------------------------------------------
(* Two asyncio tasks of one event loop calling the per-id store             *)

\* The calls a task makes on deployment D1: update_deployment(status, error)
\* or record_deployment of a new pending record.
ConOps ==
    [kind : {"update"}, status : {"in_progress", "completed", "failed"},
     error : {"None", "own"}, start_time : {0}]
    \cup [kind : {"record"}, status : {"pending"}, error : {"None"},
          start_time : 0..MaxTime]

\* the error dict a task passes: one that names the task
ErrArg(op, who) == IF op.error = "None" THEN "None" ELSE who

\* The record file after one call has run alone, at time t.
ApplyOp(file, op, who, t) ==
    IF op.kind = "record" THEN json(NewDeployment(op.status, op.start_time))
    ELSE IF get_deployment([id \in DepIds |-> file], "D1").exc # "none" THEN file
    ELSE json(update_status(parse_raw(file), op.status, ErrArg(op, who), t))

\* every await of a coroutine gives the event loop a turn
AwaitSuspends_always(coroutine) == TRUE

\* 'await coroutine(...)' runs the coroutine inside the awaiting task; the
\* event loop gets a turn only if the coroutine awaits something that is not
\* ready.  get_deployment and record_deployment (178-231) open, read and
\* write their file with blocking calls and await nothing.
AwaitSuspends(coroutine) == coroutine \in {}

\* asyncio.create_task(service.<op>(...))
CreateTask(t, op) ==
    /\ tasks[t].pc = "idle"
    /\ op.kind = "record" => op.start_time <= now
    /\ tasks' = [tasks EXCEPT ![t] = [pc |-> "ready", op |-> op]]
    /\ conBase' = IF \A u \in Tasks : tasks[u].pc = "idle" THEN store["D1"]
                  ELSE conBase
    /\ UNCHANGED recVars

\* The event loop runs task t from where it stands up to its next
\* suspension or its end.
RunTask(t) ==
    /\ tasks[t].pc \in {"ready", "got"}
    /\ LET k == tasks[t]
           Finish(d) ==
               /\ store' = [store EXCEPT !["D1"] =
                              json(update_status(d, k.op.status, ErrArg(k.op, t), now))]
               /\ tasks' = [tasks EXCEPT ![t] = [pc |-> "done", op |-> k.op,
                                                  exc |-> "none", at |-> now]]
       IN IF k.op.kind = "record"
          THEN /\ store' = [store EXCEPT !["D1"] =
                              json(NewDeployment(k.op.status, k.op.start_time))]
               /\ tasks' = [tasks EXCEPT ![t] = [pc |-> "done", op |-> k.op,
                                                  exc |-> "none", at |-> now]]
          ELSE IF k.pc = "got" THEN Finish(k.deployment)
          ELSE LET got == get_deployment(store, "D1") IN
               IF got.exc # "none"
               THEN /\ tasks' = [tasks EXCEPT ![t] = [pc |-> "done", op |-> k.op,
                                                       exc |-> got.exc, at |-> now]]
                    /\ UNCHANGED store
               ELSE IF AwaitSuspends("get_deployment")
                    THEN /\ tasks' = [tasks EXCEPT ![t] =
                                        [pc |-> "got", op |-> k.op,
                                         deployment |-> got.deployment]]
                         /\ UNCHANGED store
                    ELSE Finish(got.deployment)
    /\ UNCHANGED <<now, recCall, chain, conBase>>

\* the clock while tasks are pending
ConTick == Tick /\ UNCHANGED conVars

\* a record made before any task exists
ConRecord(status, start_time) ==
    /\ \A t \in Tasks : tasks[t].pc = "idle"
    /\ RecordNew("D1", status, start_time, "none")
    /\ UNCHANGED conVars

InitCon == InitRec

NextCon ==
    \/ (\E st \in {"pending", "in_progress"}, t \in 0..MaxTime : ConRecord(st, t))
          /\ UNCHANGED <<dfsVars, histVars, listVars, domVars, rateVars>>
    \/ (\E t \in Tasks, op \in ConOps : CreateTask(t, op))
          /\ UNCHANGED <<dfsVars, histVars, listVars, domVars, rateVars>>
    \/ (\E t \in Tasks : RunTask(t))
          /\ UNCHANGED <<dfsVars, histVars, listVars, domVars, rateVars>>
    \/ ConTick /\ UNCHANGED <<dfsVars, histVars, listVars, domVars, rateVars>>

SpecCon == InitCon /\ [][NextCon]_vars

----------------------------------------------------------------------------
(* The domain record and the record files of src/services                  *)

\* a history directory as a run finds it: each record file missing or
\* written earlier
InitDom ==
    /\ dom = NoDom
    /\ cstore \in [CIds -> {NoRec} \cup {CFile(s) : s \in CStatuses}]
    /\ domCall = NoCall
    /\ DfsIdle /\ HistIdle /\ RecIdle /\ ConIdle /\ ListIdle /\ RateIdle

NextDom ==
    \/ (\E id \in DomIds, ty \in {"template", "test"}, v \in Versions,
           lv \in SecurityLevels : Construct(id, ty, v, lv))
          /\ UNCHANGED <<dfsVars, histVars, recVars, conVars, listVars, rateVars>>
    \/ (\E s \in CStatuses : AssignStatus(s))
          /\ UNCHANGED <<dfsVars, histVars, recVars, conVars, listVars, rateVars>>
    \/ DomValidate /\ UNCHANGED <<dfsVars, histVars, recVars, conVars, listVars, rateVars>>
    \/ (\E s \in CStatuses, u \in Users, lv \in SecurityLevels :
            DomUpdateStatus(s, u, lv))
          /\ UNCHANGED <<dfsVars, histVars, recVars, conVars, listVars, rateVars>>
    \/ DomAddError /\ UNCHANGED <<dfsVars, histVars, recVars, conVars, listVars, rateVars>>
    \/ (\E f \in {"none", "open"} : CRecord(f))
          /\ UNCHANGED <<dfsVars, histVars, recVars, conVars, listVars, rateVars>>
    \/ (\E id \in CIds, s \in StatusStrings, f \in {"none", "open"} :
            CUpdateStatus(id, s, "test_user", f))
          /\ UNCHANGED <<dfsVars, histVars, recVars, conVars, listVars, rateVars>>

SpecDom == InitDom /\ [][NextDom]_vars

----------------------------------------------------------------------------
(* list_deployments and get_deployment_stats over a history directory       *)

\* start times of the records of a directory, in days; no two records of a
\* directory start at the same time
StartTimes == 1..MaxFiles

\* The records found in the files: completed and failed ones carry a
\* duration (possibly 0), records in progress carry none; deployments of
\* template tA are initial ones, those of tB updates.
ListRecords ==
    {r \in [template_id : {"tA", "tB"},
            status : {"completed", "failed", "in_progress"},
            deployment_type : {"initial", "update"},
            start_time : StartTimes,
            duration_seconds : {NoneVal, Some(0), Some(2)}] :
        /\ r.duration_seconds.none <=> r.status = "in_progress"
        /\ r.deployment_type = "initial" <=> r.template_id = "tA"}

\* Directories: the files in the order history_path.glob("*.json") yields
\* them, which is whatever order the file system returns.
Dirs ==
    UNION {{d \in [1..n -> ListRecords] :
               \A i, j \in 1..n : i # j => d[i].start_time # d[j].start_time}
           : n \in 0..MaxFiles}

\* default of the limit parameter of list_deployments
ListLimitDefault == 100

\* the limit get_deployment_stats passes to list_deployments
StatsLimit == 1000

RECURSIVE ListLoop(_, _, _, _, _, _)
\* the for loop of list_deployments (288-302), from file number i on;
\* template_id and status are "None" when not given
ListLoop(d, i, template_id, status, limit, acc) ==
    IF i > Len(d) THEN acc
    ELSE IF Len(acc) >= limit THEN acc
    ELSE IF template_id # "None" /\ d[i].template_id # template_id
         THEN ListLoop(d, i + 1, template_id, status, limit, acc)
    ELSE IF status # "None" /\ d[i].status # status
         THEN ListLoop(d, i + 1, template_id, status, limit, acc)
    ELSE ListLoop(d, i + 1, template_id, status, limit, Append(acc, d[i]))

\* list_deployments (262-304)
list_deployments(d, template_id, status, limit) ==
    ListLoop(d, 1, template_id, status, limit, <<>>)

RECURSIVE StatsLoop(_, _, _, _)
\* the for loop of get_deployment_stats (346-364)
StatsLoop(ds, i, cutoff, stats) ==
    IF i > Len(ds) THEN stats
    ELSE IF ds[i].start_time < cutoff THEN StatsLoop(ds, i + 1, cutoff, stats)
    ELSE LET r == ds[i]
             s1 == [stats EXCEPT
                      !.total = @ + 1,
                      !.successful = IF r.status = "completed" THEN @ + 1 ELSE @,
                      !.failed = IF r.status = "failed" THEN @ + 1 ELSE @,
                      !.in_progress = IF r.status = "in_progress" THEN @ + 1 ELSE @,
                      !.by_type = [ty \in DOMAIN @ \cup {r.deployment_type} |->
                                     IF ty \in DOMAIN @
                                     THEN IF ty = r.deployment_type
                                          THEN @[ty] + 1 ELSE @[ty]
                                     ELSE 1]]
             \* if deployment.metrics.duration_seconds: None and 0.0 are false
             timed == ~r.duration_seconds.none /\ r.duration_seconds.val # 0
             s2 == IF timed
                   THEN [s1 EXCEPT !.total_duration = @ + r.duration_seconds.val,
                                   !.duration_count = @ + 1]
                   ELSE s1
         IN StatsLoop(ds, i + 1, cutoff, s2)

\* get_deployment_stats (306-369), called on day today; the average is kept
\* as the quotient total_duration / duration_count, 0 / 1 when no duration
\* was counted
get_deployment_stats(d, template_id, timeframe_days, today) ==
    LET cutoff == today - timeframe_days
        stats0 == [total |-> 0, successful |-> 0, failed |-> 0, in_progress |-> 0,
                   by_type |-> <<>>,
                   total_duration |-> 0, duration_count |-> 0]
        s == StatsLoop(list_deployments(d, template_id, "None", StatsLimit),
                       1, cutoff, stats0)
    IN [total |-> s.total, successful |-> s.successful, failed |-> s.failed,
        in_progress |-> s.in_progress, by_type |-> s.by_type,
        average_duration |-> IF s.duration_count > 0
                             THEN <<s.total_duration, s.duration_count>>
                             ELSE <<0, 1>>]

\* await service.list_deployments(template_id, status, limit)
ListDeployments(template_id, status, limit) ==
    /\ listOut' = [op |-> "list_deployments", template_id |-> template_id,
                   status |-> status, limit |-> limit,
                   ret |-> list_deployments(dir, template_id, status, limit)]
    /\ UNCHANGED dir

\* await service.get_deployment_stats(template_id, timeframe_days), on the
\* day of the latest possible start time
GetDeploymentStats(template_id, timeframe_days) ==
    /\ listOut' = [op |-> "get_deployment_stats", template_id |-> template_id,
                   timeframe_days |-> timeframe_days, today |-> MaxFiles,
                   ret |-> get_deployment_stats(dir, template_id, timeframe_days,
                                                MaxFiles)]
    /\ UNCHANGED dir

InitList ==
    /\ dir \in Dirs
    /\ listOut = NoCall
    /\ DfsIdle /\ HistIdle /\ RecIdle /\ ConIdle /\ DomIdle /\ RateIdle

NextList ==
    \/ (\E tid \in {"None", "tA", "tB"}, st \in {"None", "completed", "failed"},
           limit \in (1..MaxFiles) \cup {ListLimitDefault} :
            ListDeployments(tid, st, limit))
          /\ UNCHANGED <<dfsVars, histVars, recVars, conVars, domVars, rateVars>>
    \/ (\E tid \in {"None", "tA", "tB"}, days \in 0..MaxFiles :
            GetDeploymentStats(tid, days))
          /\ UNCHANGED <<dfsVars, histVars, recVars, conVars, domVars, rateVars>>

SpecList == InitList /\ [][NextList]_vars

----------------------------------------------------------------------------
(* src/domain/security/rate_limiter.py: RateLimiter                         *)

Keys == {"test_user"}

\* values of context.get(group_key); "None" stands for a call without a
\* context or without the group key in it
Groups == {"tenant1", "tenant2"}

\* the configurations RateLimiter.__init__ accepts (42-47): positive
\* max_requests and time_window, burst_limit None or positive
RateConfigs ==
    [max_requests : 1..MaxRequests,
     time_window : 1..MaxWindow,
     burst_limit : {NoneVal} \cup {Some(b) : b \in 1..MaxBurst},
     group_key : {"None", "tenant_id"}]

\* self.burst_limit = config.burst_limit or config.max_requests (50)
burst_limit(cfg) ==
    IF cfg.burst_limit.none THEN cfg.max_requests ELSE cfg.burst_limit.val

\* RateLimitEntry() (25-29)
NewEntry == [exists |-> TRUE, requests |-> <<>>,
             group_usage |-> [g \in Groups |-> 0]]

NoEntry == [exists |-> FALSE]

\* _get_or_create_window (107-111)
get_or_create_window(ws, key) ==
    IF ws[key].exists THEN ws[key] ELSE NewEntry

\* [t for t in window.requests if t > cutoff] (62, 103)
Unexpired(requests, cutoff) == SelectSeq(requests, LAMBDA t : t > cutoff)

\* _get_reset_time (113-118), read at clock value t
get_reset_time(window, cfg, t) ==
    IF window.requests = <<>> THEN 0
    ELSE LET oldest_request ==
                 CHOOSE x \in {window.requests[i] : i \in DOMAIN window.requests} :
                     \A i \in DOMAIN window.requests : x <= window.requests[i]
             left == oldest_request + cfg.time_window - t
         IN IF left > 0 THEN left ELSE 0

\* check_rate_limit (54-93) with the rejected request appended as well
check_rate_limit_recording(cfg, entry, t, group) ==
    LET cutoff == t - cfg.time_window
        window == [entry EXCEPT !.requests = Append(Unexpired(@, cutoff), t)]
    IN IF Len(window.requests) > burst_limit(cfg)
       THEN [exc |-> "RateLimitExceeded", message |-> "Rate limit exceeded",
             remaining_time |-> get_reset_time(window, cfg, t), window |-> window]
       ELSE [exc |-> "none", ret |-> TRUE, window |-> window]

\* check_rate_limit (54-93) on the key's entry at clock value t; group is
\* "None" when no context or no group is passed
check_rate_limit(cfg, entry, t, group) ==
    LET cutoff == t - cfg.time_window
        window == [entry EXCEPT !.requests = Unexpired(@, cutoff)]
        grouped == cfg.group_key # "None" /\ group # "None"
    IN IF grouped /\ window.group_usage[group] >= burst_limit(cfg)
       THEN [exc |-> "RateLimitExceeded",
             message |-> "Group rate limit exceeded",
             remaining_time |-> get_reset_time(window, cfg, t),
             window |-> window]
       ELSE IF Len(window.requests) >= burst_limit(cfg)
       THEN [exc |-> "RateLimitExceeded", message |-> "Rate limit exceeded",
             remaining_time |-> get_reset_time(window, cfg, t),
             window |-> window]
       ELSE [exc |-> "none", ret |-> TRUE,
             window |-> [window EXCEPT
                           !.requests = Append(@, t),
                           !.group_usage = IF grouped
                                           THEN [@ EXCEPT ![group] = @ + 1]
                                           ELSE @]]

\* limiter.check_rate_limit(key, context)
CheckRateLimit(key, group) ==
    LET entry == get_or_create_window(windows, key)
        out == check_rate_limit(config, entry, rtime, group)
    IN /\ windows' = [windows EXCEPT ![key] = out.window]
       /\ rateCall' = [op |-> "check_rate_limit", key |-> key, group |-> group,
                       at |-> rtime,
                       exc |-> out.exc, before |-> entry,
                       remaining_time |-> IF out.exc = "none" THEN 0
                                          ELSE out.remaining_time,
                       message |-> IF out.exc = "none" THEN "" ELSE out.message]
       /\ UNCHANGED <<config, rtime>>

\* limiter.get_remaining(key) (95-105)
GetRemaining(key) ==
    LET entry == get_or_create_window(windows, key)
        window == [entry EXCEPT
                     !.requests = Unexpired(@, rtime - config.time_window)]
    IN /\ windows' = [windows EXCEPT ![key] = window]
       /\ rateCall' = [op |-> "get_remaining", key |-> key, before |-> entry,
                       ret |-> burst_limit(config) - Len(window.requests)]
       /\ UNCHANGED <<config, rtime>>

\* limiter.cleanup() (138-151)
Cleanup ==
    LET cutoff == rtime - config.time_window
        expired == {k \in Keys :
                      /\ windows[k].exists
                      /\ \A i \in DOMAIN windows[k].requests :
                            windows[k].requests[i] <= cutoff}
    IN /\ windows' = [k \in Keys |-> IF k \in expired THEN NoEntry ELSE windows[k]]
       /\ rateCall' = [op |-> "cleanup", expired |-> expired]
       /\ UNCHANGED <<config, rtime>>

\* time.time() moves on between calls
RateTick ==
    /\ rtime < MaxNow
    /\ rtime' = rtime + 1
    /\ UNCHANGED <<config, windows, rateCall>>

InitRate ==
    /\ config \in RateConfigs
    /\ windows = [k \in Keys |-> NoEntry]
    /\ rtime = 0
    /\ rateCall = NoCall
    /\ DfsIdle /\ HistIdle /\ RecIdle /\ ConIdle /\ ListIdle /\ DomIdle

NextRate ==
    \/ (\E key \in Keys, group \in Groups \cup {"None"} : CheckRateLimit(key, group))
          /\ UNCHANGED <<dfsVars, histVars, recVars, conVars, listVars, domVars>>
    \/ (\E key \in Keys : GetRemaining(key))
          /\ UNCHANGED <<dfsVars, histVars, recVars, conVars, listVars, domVars>>
    \/ Cleanup /\ UNCHANGED <<dfsVars, histVars, recVars, conVars, listVars, domVars>>
    \/ RateTick /\ UNCHANGED <<dfsVars, histVars, recVars, conVars, listVars, domVars>>

SpecRate == InitRate /\ [][NextRate]_vars

----------------------------------------------------------------------------
(* Graph-theoretic reference for the validator's verdict                    *)

\* The edges (owner, relationship.doc_id) of a relationships dict.
Edges(keys, map) ==
    UNION {{<<k, map[k][i]>> : i \in 1..Len(map[k])} : k \in Range(keys)}

RECURSIVE ReachFrom(_, _)
ReachFrom(E, S) ==
    LET T == S \cup {e[2] : e \in {x \in E : x[1] \in S}}
    IN IF T = S THEN S ELSE ReachFrom(E, T)

\* b is reachable from a by a path of at least one edge
Reaches(E, a, b) == b \in ReachFrom(E, {e[2] : e \in {x \in E : x[1] = a}})

\* a directed cycle through at least two distinct documents
HasCycle2(keys, map) ==
    LET E == Edges(keys, map)
    IN \E a \in DocIds, b \in DocIds : a # b /\ Reaches(E, a, b) /\ Reaches(E, b, a)

HasSelfLoop(keys, map) == \E d \in DocIds : <<d, d>> \in Edges(keys, map)

\* C1: for every relationship map the validator raises
\* CircularDependencyError exactly when the map has a directed cycle of
\* length >= 2, whatever the order of the keys and of each list.
C1_RaisesCircularIffCycle ==
    dfsOut # NotRun =>
        ((dfsOut.raised = "CircularDependencyError") <=> HasCycle2(relKeys, relMap))

----------------------------------------------------------------------------
(* History store of scripts/template_system: retention and rollback         *)

Min(a, b) == IF a < b THEN a ELSE b

\* C3: the in-memory history is exactly the last min(n + loaded,
\* max_entries) records created, in insertion order (the k-th record ever
\* inserted carries timestamp k), so its length never exceeds max_entries
\* and the oldest records are the ones evicted.
C3_HistoryIsLastMaxEntries ==
    /\ Len(history) = Min(clock, max_entries)
    /\ \A i \in 1..Len(history) :
          history[i].timestamp = clock - Len(history) + i

\* a record_deployment call that evicted the oldest record
C3_Witness ==
    /\ lastCall.op = "record_deployment"
    /\ clock > max_entries
    /\ Len(history) = max_entries
    /\ history[1].timestamp > 1

\* C4: when rollback found a successful record whose template file exists
\* (and a file was at target_path), then on return <target_path>.backup
\* holds the content target_path had before the call, target_path holds the
\* template's content and <target_path>.backup is returned.
C4_RollbackBacksUpAndRestores ==
    (/\ lastCall.op = "rollback"
     /\ lastCall.sel > 0
     /\ lastCall.pre # Absent
     /\ ~history[lastCall.sel].template_path.none
     /\ fs[history[lastCall.sel].template_path.val] # Absent)
    => /\ lastCall.ret = Some(PlusSuffix(lastCall.target, "backup"))
       /\ fs[PlusSuffix(lastCall.target, "backup")] = lastCall.pre
       /\ fs[lastCall.target] = fs[history[lastCall.sel].template_path.val]

\* index i is the most recent successful record of target_path t in h
IsLatestSuccess(h, t, i) ==
    /\ i \in 1..Len(h)
    /\ h[i].target_path = t /\ h[i].status = "success"
    /\ \A j \in (i + 1)..Len(h) : ~(h[j].target_path = t /\ h[j].status = "success")

\* C5: rollback(target_path) works from the most recently recorded entry
\* with that target_path and status success; entries for other paths and
\* failed or pending entries are never selected, and a rollback that
\* returns a backup path has copied that entry's template to target_path.
C5_RollbackSelectsLatestSuccess ==
    /\ rb.pc # "idle" => IsLatestSuccess(history, rb.target, rb.sel)
    /\ (lastCall.op = "rollback" /\ lastCall.sel > 0) =>
          /\ IsLatestSuccess(history, lastCall.target, lastCall.sel)
          /\ ~lastCall.ret.none =>
                fs[lastCall.target] = fs[history[lastCall.sel].template_path.val]
    /\ (lastCall.op = "rollback" /\ lastCall.sel = 0) =>
          \A i \in 1..Len(history) :
              ~(history[i].target_path = lastCall.target /\ history[i].status = "success")

\* a completed rollback that passed over a more recent entry and restored
\* from an older successful one
C5_Witness ==
    /\ lastCall.op = "rollback"
    /\ lastCall.sel > 0
    /\ lastCall.sel < Len(history)
    /\ ~lastCall.ret.none

\* C6: rollback(target_path) without a successful record for target_path
\* returns None, raises nothing and changes neither files nor history.
C6_NoMatchRollbackIsNoop ==
    (lastCall.op = "rollback" /\ lastCall.sel = 0)
    => /\ lastCall.exc = "none"
       /\ lastCall.ret = NoneVal
       /\ fs[lastCall.target] = lastCall.pre

\* C9: no relationship from a document to itself exists, so on the
\* deployment path the validator never receives a map with a self-loop.
C9_NoSelfLoopReachesValidator ==
    (lastCall.op = "deploy_template" /\ lastCall.checked)
    => ~HasSelfLoop(<<lastCall.doc_id>>, DeployMap(lastCall.doc_id, lastCall.rels))

----------------------------------------------------------------------------
(* Status transitions on the per-id store                                   *)

\* The last call was an update of an existing record.
UpdatedExisting ==
    recCall.op = "update_deployment" /\ recCall.from # "none"

\* The last call asked an existing record to move to another status along a
\* pair that is not in the table.
IllegalRequest ==
    /\ UpdatedExisting
    /\ recCall.to # recCall.from
    /\ recCall.to \notin valid_transitions(recCall.from)

\* C2: every accepted change of status is one of the legal transitions, and
\* an update that requests any other (from, to) pair is rejected with an
\* error.
C2_OnlyLegalTransitionsAccepted ==
    UpdatedExisting =>
        /\ (recCall.exc = "none" /\ store[recCall.id].status # recCall.from)
              => recCall.to \in valid_transitions(recCall.from)
        /\ IllegalRequest => recCall.exc # "none"

\* C7: an update that requests an illegal transition raises the
\* invalid-transition error and leaves the stored record as it was before the
\* call.
C7_IllegalUpdateRaisesAndKeepsRecord ==
    IllegalRequest
        => /\ recCall.exc = "InvalidTransitionError"
           /\ store[recCall.id] = recCall.before

C10_HistoryWriteFailureDoesNotRaise ==
    /\ (lastCall.op = "record_deployment" /\ lastCall.fault # "none")
          => lastCall.exc = "none"
    /\ (lastCall.op = "deploy_template" /\ lastCall.recorded
            /\ lastCall.status = "success" /\ lastCall.hfault # "none")
          => lastCall.exc = "none"
    /\ (recCall.op = "record_deployment" /\ recCall.fault # "none")
          => recCall.exc = "none"

----------------------------------------------------------------------------
(* Rollback failures                                                        *)

\* C11: when rollback has selected a successful record and the restore then
\* fails (template missing, or the copy fails after the move to the backup),
\* the caller learns of the failure: the call raises, or returns something
\* other than the None that stands for 'no previous successful deployment'.
C11_RestoreFailureIsSurfaced ==
    (lastCall.op = "rollback" /\ lastCall.sel > 0 /\ lastCall.caught # "none")
    => (lastCall.exc # "none" \/ lastCall.ret # NoneVal)

----------------------------------------------------------------------------
(* Unknown deployment ids                                                   *)

----------------------------------------------------------------------------
(* Serialization of concurrent calls                                        *)

\* The record file after task a's call and then task b's call, each run
\* alone at the time the task in fact finished.
Serial(a, b) ==
    ApplyOp(ApplyOp(conBase, tasks[a].op, a, tasks[a].at),
            tasks[b].op, b, tasks[b].at)

----------------------------------------------------------------------------
(* Deployment outcome and the version-control step                          *)

\* C14: when deploy_template has written the target file, the record it
\* stores in the history has status success, whatever the commit to version
\* control does afterwards.
C14_CommitFailureKeepsSuccess ==
    (lastCall.op = "deploy_template" /\ lastCall.recorded /\ lastCall.wrote)
    => /\ lastCall.status = "success"
       /\ history[Len(history)].status = "success"

----------------------------------------------------------------------------
(* The domain record: construction and status updates                       *)

\* C15: constructing a DeploymentRecord with an empty deployment id, or
\* with a version that is not X.Y.Z, raises a validation error, so that no
\* record object and no record file carries such a value.
C15_MalformedRecordRejected ==
    /\ (/\ domCall.op = "construct"
        /\ (domCall.deployment_id = "" \/ domCall.version \in {"1.0", "invalid"}))
       => domCall.exc \in {"ValidationError", "ValueError"}
    /\ dom.built => dom.deployment_id # ""
    /\ \A id \in CIds : cstore[id].exists => id # ""

\* C19: the validator accepts a record whose status is PENDING, and on a
\* newly constructed record update_status(IN_PROGRESS, user, EXECUTE) with a
\* non-empty user succeeds and leaves status IN_PROGRESS and
\* metadata.modified_by = user.
C19_PendingMovesToInProgress ==
    /\ (domCall.op = "validate" /\ dom.status = "pending") => domCall.ret
    /\ (/\ domCall.op = "update_status"
        /\ domCall.from = "pending" /\ domCall.level = "read_only"
        /\ domCall.new_status = "in_progress"
        /\ domCall.modified_by # "" /\ domCall.security_level = "execute")
       => /\ domCall.exc = "none"
          /\ dom.status = "in_progress"
          /\ dom.modified_by = Some(domCall.modified_by)

\* C20: each store keeps one record file per deployment id, and
\* record_deployment for an id puts the record passed to it in that file,
\* replacing what was there, errors added since the last call included.
C20_RecordReplacesPerId ==
    /\ (recCall.op = "record_deployment" /\ recCall.fault = "none")
       => /\ recCall.exc = "none"
          /\ store[recCall.id].exists
          /\ parse_raw(store[recCall.id]).status = recCall.to
    /\ (domCall.op = "record_deployment" /\ domCall.fault = "none"
            /\ domCall.id \in CIds)
       => /\ domCall.exc = "none"
          /\ cstore[domCall.id].exists
          /\ cstore[domCall.id].status = dom.status
          /\ cstore[domCall.id].errors = dom.errors

----------------------------------------------------------------------------
(* Circular relationships on the deployment path                            *)

\* C16: when the relationships handed to deploy_template contain a circular
\* dependency, the call fails, the file at target_path is neither created
\* nor changed by it, and no record with status success is stored for it.
C16_CycleAbortsDeployment ==
    (/\ lastCall.op = "deploy_template"
     /\ lastCall.checked
     /\ \/ HasSelfLoop(<<lastCall.doc_id>>, DeployMap(lastCall.doc_id, lastCall.rels))
        \/ HasCycle2(<<lastCall.doc_id>>, DeployMap(lastCall.doc_id, lastCall.rels)))
    => /\ lastCall.exc # "none"
       /\ fs[lastCall.target] = lastCall.pre
       /\ ~lastCall.recorded
       /\ lastCall.status # "success"

\* a deployment refused because of its relationships, while an earlier
\* deployment's file is at the target
C16_Witness ==
    /\ lastCall.op = "deploy_template"
    /\ lastCall.early = "cycle"
    /\ lastCall.pre # Absent
    /\ fs[lastCall.target] = lastCall.pre

\* the records of the directory that pass the filters given ("None": not given)
Matching(template_id, status) ==
    {i \in 1..Len(dir) :
        /\ template_id = "None" \/ dir[i].template_id = template_id
        /\ status = "None" \/ dir[i].status = status}

\* C17: list_deployments returns at most limit records, all of which pass
\* every filter given; they are ordered most recent first, and when more than
\* limit records match, the limit most recent matching ones are returned.
C17_ListIsMostRecentFirst ==
    listOut.op = "list_deployments" =>
        LET ret == listOut.ret
            m == Matching(listOut.template_id, listOut.status)
        IN /\ Len(ret) <= listOut.limit
           /\ \A k \in 1..Len(ret) :
                \E i \in m : dir[i] = ret[k]
           /\ \A k \in 1..(Len(ret) - 1) :
                ret[k].start_time > ret[k + 1].start_time
           /\ Cardinality(m) > listOut.limit =>
                \A i \in m :
                    (\E k \in 1..Len(ret) : ret[k] = dir[i])
                    \/ \A k \in 1..Len(ret) : ret[k].start_time > dir[i].start_time

RECURSIVE SumDurations(_)
SumDurations(S) ==
    IF S = {} THEN 0
    ELSE LET i == CHOOSE x \in S : TRUE
         IN dir[i].duration_seconds.val + SumDurations(S \ {i})

RECURSIVE SumCounts(_, _)
SumCounts(f, S) ==
    IF S = {} THEN 0
    ELSE LET x == CHOOSE y \in S : TRUE
         IN f[x] + SumCounts(f, S \ {x})

\* C18: get_deployment_stats counts the stored records of the template whose
\* start_time lies in the trailing window, splits them by status, gives
\* by_type counts that sum to the total, and reports as average_duration the
\* mean duration over the counted records with a recorded duration, a
\* recorded 0 included, or 0 when there are none.
C18_StatsOverWindow ==
    listOut.op = "get_deployment_stats" =>
        LET ret == listOut.ret
            counted == {i \in Matching(listOut.template_id, "None") :
                           dir[i].start_time >= listOut.today - listOut.timeframe_days}
            timed == {i \in counted : ~dir[i].duration_seconds.none}
        IN /\ ret.total = Cardinality(counted)
           /\ ret.successful = Cardinality({i \in counted : dir[i].status = "completed"})
           /\ ret.failed = Cardinality({i \in counted : dir[i].status = "failed"})
           /\ ret.in_progress = Cardinality({i \in counted : dir[i].status = "in_progress"})
           /\ SumCounts(ret.by_type, DOMAIN ret.by_type) = ret.total
           /\ IF timed = {}
              THEN ret.average_duration[1] = 0
              ELSE ret.average_duration[1] * Cardinality(timed)
                     = SumDurations(timed) * ret.average_duration[2]

\* the admitted requests of the called key that were still inside the window
\* when the last check_rate_limit call was made
InWindowBefore ==
    Unexpired(rateCall.before.requests, rateCall.at - config.time_window)

\* C21: with max_requests = M, check_rate_limit(key) returns True while
\* fewer than M calls for the key were admitted in the window, and the call
\* after M admitted ones raises RateLimitExceeded with remaining_time > 0.
C21_LimitIsMaxRequests ==
    (rateCall.op = "check_rate_limit" /\ rateCall.group = "None") =>
        /\ Len(InWindowBefore) < config.max_requests => rateCall.exc = "none"
        /\ Len(InWindowBefore) = config.max_requests =>
              /\ rateCall.exc = "RateLimitExceeded"
              /\ rateCall.remaining_time > 0

\* C22: with group limiting configured, after burst_limit admitted calls of
\* one group under a key, a call with the same key and another group inside
\* the same window is admitted.
C22_OtherGroupStillAdmitted ==
    (/\ rateCall.op = "check_rate_limit"
     /\ config.group_key # "None"
     /\ rateCall.group # "None"
     /\ rateCall.before.group_usage[rateCall.group] = 0
     /\ \E g1 \in Groups \ {rateCall.group} :
            /\ rateCall.before.group_usage[g1] = burst_limit(config)
            /\ Len(InWindowBefore) = burst_limit(config))
    => rateCall.exc = "none"

\* C29: a check_rate_limit call that raises RateLimitExceeded leaves the
\* key's admitted timestamps (apart from dropping expired ones) and its group
\* usage as they were, and the number of admitted timestamps inside the
\* window never exceeds the burst limit.
C29_RejectedCallConsumesNothing ==
    /\ (rateCall.op = "check_rate_limit" /\ rateCall.exc = "RateLimitExceeded") =>
          /\ windows[rateCall.key].requests = InWindowBefore
          /\ windows[rateCall.key].group_usage = rateCall.before.group_usage
    /\ \A k \in Keys :
          windows[k].exists =>
              Len(Unexpired(windows[k].requests, rtime - config.time_window))
                  <= burst_limit(config)

C29_Witness ==
    /\ rateCall.op = "check_rate_limit"
    /\ rateCall.exc = "RateLimitExceeded"
    /\ rateCall.message = "Rate limit exceeded"
    /\ Len(rateCall.before.requests) = burst_limit(config)
    /\ windows[rateCall.key].requests = rateCall.before.requests

\* C30: a (key, group) pair that reached the group limit is admitted again
\* once a full window has passed without admitted requests for the key, with
\* no cleanup() call in between.
C30_GroupUsageSlides ==
    (/\ rateCall.op = "check_rate_limit"
     /\ config.group_key # "None"
     /\ rateCall.group # "None"
     /\ rateCall.before.group_usage[rateCall.group] >= burst_limit(config)
     /\ InWindowBefore = <<>>)
    => rateCall.exc = "none"

\* C23: in one check_circular_dependencies call dfs() is started at most
\* once for each document id, and when the call returns normally the
\* recursion stack is empty and visited holds every key of the map and every
\* target reachable from a key.
C23_EachNodeVisitedOnce ==
    dfsOut # NotRun =>
        /\ \A d \in DocIds : dfsOut.starts[d] <= 1
        /\ dfsOut.raised = "none" =>
              /\ dfsOut.recursion_stack = {}
              /\ Range(relKeys) \subseteq dfsOut.visited
              /\ \A k \in Range(relKeys), d \in DocIds :
                    Reaches(Edges(relKeys, relMap), k, d) => d \in dfsOut.visited

C23_Witness ==
    /\ dfsOut # NotRun
    /\ dfsOut.raised = "none"
    /\ \E a \in Range(relKeys), b \in Range(relKeys), d \in DocIds \ Range(relKeys) :
          /\ a # b
          /\ {<<a, d>>, <<b, d>>} \subseteq Edges(relKeys, relMap)
          /\ dfsOut.starts[d] = 1

\* C24: update_status sets end_time and duration_seconds = end_time -
\* start_time on every transition into completed, failed or rolled_back, and
\* leaves both untouched on a transition into pending or in_progress.
C24_TerminalStatesSetDuration ==
    (recCall.op = "update_deployment" /\ recCall.exc = "none") =>
        LET d == parse_raw(store[recCall.id])
        IN IF recCall.to \in {"completed", "failed", "rolled_back"}
           THEN /\ ~d.end_time.none
                /\ ~d.duration_seconds.none
                /\ d.duration_seconds.val = d.end_time.val - d.start_time
           ELSE recCall.to \in {"pending", "in_progress"} =>
                /\ d.end_time = recCall.before.end_time
                /\ d.duration_seconds = recCall.before.duration_seconds

\* the path rollback moves the current file of target to
BackupOf(target) == with_suffix(target, "backup")

\* C25: during and after a rollback the content that was at target_path
\* just before it is still at target_path or at the backup path; after a
\* failed restore target_path is absent and the backup holds that content.
C25_RollbackKeepsPriorContent ==
    /\ (rb.pc \in {"backup", "restore"} /\ rb.pre # Absent) =>
          \/ fs[rb.target] = rb.pre
          \/ fs[BackupOf(rb.target)] = rb.pre
    /\ (lastCall.op = "rollback" /\ lastCall.sel > 0 /\ lastCall.pre # Absent) =>
          /\ fs[BackupOf(lastCall.target)] = lastCall.pre
          /\ lastCall.caught # "none" => fs[lastCall.target] = Absent

C25_Witness ==
    /\ lastCall.op = "rollback"
    /\ lastCall.sel > 0
    /\ lastCall.pre # Absent
    /\ lastCall.caught # "none"
    /\ fs[lastCall.target] = Absent
    /\ fs[BackupOf(lastCall.target)] = lastCall.pre

\* C26: a deployment whose content was loaded from a template file stores
\* that file's path in its record's metadata.template_path, so every success
\* record deploy_template makes from a template file lets rollback locate
\* the template.
C26_TemplatePathIsStored ==
    (/\ lastCall.op = "deploy_template"
     /\ lastCall.recorded
     /\ lastCall.src # "given")
    => ~history[Len(history)].template_path.none

\* timestamp of the newest record of a history, 0 for an empty one
LastTimestamp(h) == IF h = <<>> THEN 0 ELSE h[Len(h)].timestamp

\* C27: a deploy_template call that creates its record appends exactly one
\* record to the history, with status success or failed and never pending; a
\* call that fails before the record is created appends none.
C27_OneRecordPerDeployment ==
    lastCall.op = "deploy_template" =>
        IF lastCall.recorded
        THEN /\ history # <<>>
             /\ LastTimestamp(history) = clock
             /\ clock > lastCall.hlast
             /\ history[Len(history)].status \in {"success", "failed"}
             /\ history[Len(history)].target_path = lastCall.target
             /\ Len(history) > 1 =>
                   history[Len(history) - 1].timestamp <= lastCall.hlast
        ELSE LastTimestamp(history) = lastCall.hlast

C27_Witness ==
    /\ lastCall.op = "deploy_template"
    /\ lastCall.recorded
    /\ lastCall.status = "failed"
    /\ Len(history) > 1
    /\ history[Len(history)].status = "failed"

\* C28: whenever record_deployment has returned, the history file holds the
\* records of the in-memory history, so a store re-created from the file
\* holds the same records in the same order.
C28_FileMirrorsHistory ==
    (\/ lastCall.op = "record_deployment"
     \/ lastCall.op = "deploy_template" /\ lastCall.recorded)
    => /\ history_file = FileOf(history)
       /\ _load_history(history_file, max_entries) = history

====
